---- MODULE Spec2Model ----
(***************************************************************************)
(* Order-management service: a binary search tree of products, a singly    *)
(* linked list of orders, and whole-file JSON persistence of both.         *)
(*                                                                         *)
(* Python objects are modelled with their reference semantics.  A          *)
(* ProductModel instance is a cell of the heap `objects`; tree nodes and   *)
(* order nodes hold addresses of such cells, so that an order and the tree *)
(* may share one instance.  OrderNode instances are cells of `order_nodes` *)
(* chained through `next`.  Prices are bounded integers.                   *)
(***************************************************************************)
EXTENDS Naturals, Sequences, FiniteSets, TLC

VARIABLES
  objects,       \* heap of ProductModel instances: address -> fields
  product_tree,  \* ProductBST.root: None or a nested ProductNode
  order_nodes,   \* heap of OrderNode instances: address -> fields
  head,          \* OrderLinkedList.head: NULL or an address of order_nodes
  product_file,  \* products.json
  order_file,    \* orders.json
  pc,            \* position of the request in progress
  requests,      \* concurrent requests: thread -> position and local variables
  overlapped     \* history: a request has begun while another was in progress

vars == <<objects, product_tree, order_nodes, head, product_file, order_file, pc,
          requests, overlapped>>
race == <<requests, overlapped>>
memory == <<objects, product_tree, order_nodes, head>>
files == <<product_file, order_file>>

---------------------------------------------------------------------------
\* Bounds of the model.

\* product ids are 1..MaxPid
MaxPid == 2
\* prices are 1..MaxPrice
MaxPrice == 2
\* order ids of requests are 1..MaxOid
MaxOid == 2
\* a request names at most MaxItems product ids
MaxItems == 2
\* the orders of the list hold at most MaxSnapshots product instances in all
MaxSnapshots == 2
\* requests run concurrently on MaxThreads threads
MaxThreads == 2
\* the list of the concurrent specification holds at most MaxRaceLen orders
MaxRaceLen == 3
\* keys of the tree-only specification are 1..MaxKey
MaxKey == 4

ProductIds == 1..MaxPid
Prices == 1..MaxPrice
OrderIds == 1..MaxOid
Names == {"item"}
Descriptions == {"text"}

\* Sequences over S of length at most n.
SeqUpTo(S, n) == UNION {[1..k -> S] : k \in 0..n}

---------------------------------------------------------------------------
\* Data model.

\* None for a child of a ProductNode and for ProductBST.root.
None == [none |-> TRUE]
\* None for OrderNode.next and OrderLinkedList.head.
NULL == 0

\* class ProductModel: the fields of one instance.
ProductModel(id, name, price, description) ==
  [id |-> id, name |-> name, price |-> price, description |-> description]

\* The request bodies a client can send for a product.
ProductBodies(ids) ==
  {ProductModel(i, n, p, d) : i \in ids, n \in Names, p \in Prices, d \in Descriptions}

\* ProductModel.dict(): the field values of the instance at address a.
dict(objs, a) == ProductModel(objs[a].id, objs[a].name, objs[a].price, objs[a].description)

\* ProductModel(**p_data): a new instance with the fields of the dict d,
\* stored at a free address; the result is the extended heap and the address.
NewAddr(heap) == CHOOSE a \in 1..(Cardinality(DOMAIN heap) + 1) : a \notin DOMAIN heap

Construct(objs, d) ==
  LET a == NewAddr(objs)
  IN  [objects |-> objs @@ (a :> ProductModel(d.id, d.name, d.price, d.description)),
       addr |-> a]

\* class ProductNode.
ProductNode(data) == [data |-> data, left |-> None, right |-> None]

---------------------------------------------------------------------------
\* ProductBST.

RECURSIVE insert_recursive(_, _, _)
\* A faulty variant of BSTSameKey: an equal key adds a node to the right.
BSTSameKeyAppends(node, data, objs) ==
  IF node.right = None
    THEN [node EXCEPT !.right = ProductNode(data)]
    ELSE [node EXCEPT !.right = insert_recursive(node.right, data, objs)]

\* _insert_recursive, the else branch: the node's data is rebound.
BSTSameKey(node, data, objs) == [node EXCEPT !.data = data]

insert_recursive(node, data, objs) ==
  IF objs[data].id < objs[node.data].id THEN
    IF node.left = None
      THEN [node EXCEPT !.left = ProductNode(data)]
      ELSE [node EXCEPT !.left = insert_recursive(node.left, data, objs)]
  ELSE IF objs[data].id > objs[node.data].id THEN
    IF node.right = None
      THEN [node EXCEPT !.right = ProductNode(data)]
      ELSE [node EXCEPT !.right = insert_recursive(node.right, data, objs)]
  ELSE BSTSameKey(node, data, objs)

\* ProductBST.insert: the new root.
insert(root, data, objs) ==
  IF root = None THEN ProductNode(data) ELSE insert_recursive(root, data, objs)

RECURSIVE search_recursive(_, _, _)
\* A faulty variant of search_recursive: the two directions are exchanged.
search_recursive_swapped(node, product_id, objs) ==
  IF node = None \/ objs[node.data].id = product_id THEN node
  ELSE IF product_id < objs[node.data].id
    THEN search_recursive(node.right, product_id, objs)
    ELSE search_recursive(node.left, product_id, objs)

\* _search_recursive.
search_recursive(node, product_id, objs) ==
  IF node = None \/ objs[node.data].id = product_id THEN node
  ELSE IF product_id < objs[node.data].id
    THEN search_recursive(node.left, product_id, objs)
    ELSE search_recursive(node.right, product_id, objs)

\* ProductBST.search: the node found, or None.
search(root, product_id, objs) == search_recursive(root, product_id, objs)

RECURSIVE in_order_traversal(_, _, _)
\* _in_order_traversal: the list `products` extended with the dicts of the subtree.
in_order_traversal(node, products, objs) ==
  IF node = None THEN products
  ELSE in_order_traversal(node.right,
         Append(in_order_traversal(node.left, products, objs), dict(objs, node.data)),
         objs)

\* ProductBST.serialize.
serialize(root, objs) == in_order_traversal(root, <<>>, objs)

---------------------------------------------------------------------------
\* OrderLinkedList.

\* sum(p.price for p in products), products a list of instances.
RECURSIVE SumPrices(_, _)
SumPrices(products, objs) ==
  IF products = <<>> THEN 0
  ELSE objs[Head(products)].price + SumPrices(Tail(products), objs)

\* class OrderNode.
OrderNode(order_id, products, total) ==
  [id |-> order_id, products |-> products, total |-> total, status |-> "pending",
   next |-> NULL]

\* OrderNode.to_dict.
to_dict(node, objs) ==
  [id |-> node.id,
   products |-> [i \in 1..Len(node.products) |-> dict(objs, node.products[i])],
   total |-> node.total,
   status |-> node.status]

\* The loop of create_order: the last node of the chain that starts at current.
RECURSIVE LastNode(_, _)
LastNode(nodes, current) ==
  IF nodes[current].next # NULL THEN LastNode(nodes, nodes[current].next) ELSE current

\* A faulty variant of create_order: the new node becomes the head.
create_order_prepends(nodes, hd, order_id, products, objs) ==
  LET total_price == SumPrices(products, objs)
      new_node == NewAddr(nodes)
      nodes1 == nodes @@ (new_node :> [OrderNode(order_id, products, total_price)
                                         EXCEPT !.next = hd])
  IN  [order_nodes |-> nodes1, head |-> new_node, node |-> new_node]

\* OrderLinkedList.create_order: the new heap, the new head and the new node.
create_order(nodes, hd, order_id, products, objs) ==
  LET total_price == SumPrices(products, objs)
      new_node == NewAddr(nodes)
      nodes1 == nodes @@ (new_node :> OrderNode(order_id, products, total_price))
  IN  IF hd = NULL
        THEN [order_nodes |-> nodes1, head |-> new_node, node |-> new_node]
        ELSE [order_nodes |-> [nodes1 EXCEPT ![LastNode(nodes, hd)].next = new_node],
              head |-> hd, node |-> new_node]

\* The loop of find_order, from current.
RECURSIVE find_from(_, _, _)
find_from(nodes, current, order_id) ==
  IF current = NULL THEN NULL
  ELSE IF nodes[current].id = order_id THEN current
  ELSE find_from(nodes, nodes[current].next, order_id)

\* OrderLinkedList.find_order: the address of the node, or NULL.
find_order(nodes, hd, order_id) == find_from(nodes, hd, order_id)

\* An optional argument: NotGiven for None, else <<value>>.
NotGiven == <<>>
Given(v) == <<v>>
\* A faulty variant of TruthyList: only None counts as not supplied.
TruthyListNotNone(arg) == arg # NotGiven

\* Python truth of an Optional[str] and of an Optional[list].
TruthyStr(arg) == arg # NotGiven /\ arg[1] # ""
TruthyList(arg) == arg # NotGiven /\ Len(arg[1]) > 0

\* A faulty variant of update_order: new products come in a node built anew,
\* whose status is the initial one.
update_order_rebuilds(nodes, hd, order_id, new_status, new_products, objs) ==
  LET node == find_order(nodes, hd, order_id)
      nodes1 == IF node # NULL /\ TruthyStr(new_status)
                  THEN [nodes EXCEPT ![node].status = new_status[1]]
                  ELSE nodes
      nodes2 == IF node # NULL /\ TruthyList(new_products)
                  THEN [nodes1 EXCEPT ![node] =
                          [OrderNode(order_id, new_products[1],
                                     SumPrices(new_products[1], objs))
                             EXCEPT !.next = nodes[node].next]]
                  ELSE nodes1
  IN  [order_nodes |-> nodes2, node |-> node]

\* A faulty variant of update_order: the products are replaced and the total
\* is left as it was.
update_order_stale_total(nodes, hd, order_id, new_status, new_products, objs) ==
  LET node == find_order(nodes, hd, order_id)
      nodes1 == IF node # NULL /\ TruthyStr(new_status)
                  THEN [nodes EXCEPT ![node].status = new_status[1]]
                  ELSE nodes
      nodes2 == IF node # NULL /\ TruthyList(new_products)
                  THEN [nodes1 EXCEPT ![node].products = new_products[1]]
                  ELSE nodes1
  IN  [order_nodes |-> nodes2, node |-> node]

\* OrderLinkedList.update_order: the new heap and the node (NULL when absent).
update_order(nodes, hd, order_id, new_status, new_products, objs) ==
  LET node == find_order(nodes, hd, order_id)
      nodes1 == IF node # NULL /\ TruthyStr(new_status)
                  THEN [nodes EXCEPT ![node].status = new_status[1]]
                  ELSE nodes
      nodes2 == IF node # NULL /\ TruthyList(new_products)
                  THEN [nodes1 EXCEPT ![node].products = new_products[1],
                                      ![node].total = SumPrices(new_products[1], objs)]
                  ELSE nodes1
  IN  [order_nodes |-> nodes2, node |-> node]

RECURSIVE delete_from(_, _, _, _, _)
\* A faulty variant of delete_from: a match at the head is reported and the
\* head is left where it is.
delete_from_keeps_head(nodes, hd, current, prev, order_id) ==
  IF current = NULL THEN [order_nodes |-> nodes, head |-> hd, found |-> FALSE]
  ELSE IF nodes[current].id = order_id THEN
    IF prev # NULL
      THEN [order_nodes |-> [nodes EXCEPT ![prev].next = nodes[current].next],
            head |-> hd, found |-> TRUE]
      ELSE [order_nodes |-> nodes, head |-> hd, found |-> TRUE]
  ELSE delete_from(nodes, hd, nodes[current].next, current, order_id)

\* The loop of delete_order, at (current, prev).
delete_from(nodes, hd, current, prev, order_id) ==
  IF current = NULL THEN [order_nodes |-> nodes, head |-> hd, found |-> FALSE]
  ELSE IF nodes[current].id = order_id THEN
    IF prev # NULL
      THEN [order_nodes |-> [nodes EXCEPT ![prev].next = nodes[current].next],
            head |-> hd, found |-> TRUE]
      ELSE [order_nodes |-> nodes, head |-> nodes[current].next, found |-> TRUE]
  ELSE delete_from(nodes, hd, nodes[current].next, current, order_id)

\* OrderLinkedList.delete_order.
delete_order(nodes, hd, order_id) == delete_from(nodes, hd, hd, NULL, order_id)

\* The addresses met from current by following next, at most fuel of them.
RECURSIVE Chain(_, _, _)
Chain(nodes, current, fuel) ==
  IF current = NULL \/ fuel = 0 THEN <<>>
  ELSE <<current>> \o Chain(nodes, nodes[current].next, fuel - 1)

\* The chain from hd ends at NULL without meeting a node twice.
ChainEnds(nodes, hd) ==
  LET n == Cardinality(DOMAIN nodes)
      c == Chain(nodes, hd, n + 1)
  IN  /\ Len(c) <= n
      /\ \A i, j \in 1..Len(c) : c[i] = c[j] => i = j

\* OrderLinkedList.list_all: the loop visits the chain from head.
list_all(nodes, hd, objs) ==
  LET c == Chain(nodes, hd, Cardinality(DOMAIN nodes))
  IN  [i \in 1..Len(c) |-> to_dict(nodes[c[i]], objs)]

---------------------------------------------------------------------------
\* The process memory: the two module-level stores and the instances they reach.

Mem(objs, root, nodes, hd) ==
  [objects |-> objs, product_tree |-> root, order_nodes |-> nodes, head |-> hd]

\* product_tree = ProductBST() and order_list = OrderLinkedList().
EmptyMem == Mem(<<>>, None, <<>>, NULL)

\* The addresses of the data of the nodes of a tree, in order.
RECURSIVE TreeAddrs(_)
TreeAddrs(node) ==
  IF node = None THEN <<>>
  ELSE TreeAddrs(node.left) \o <<node.data>> \o TreeAddrs(node.right)

\* The addresses held by the product lists of the orders of a chain.
RECURSIVE ListAddrs(_, _)
ListAddrs(nodes, chain) ==
  IF chain = <<>> THEN <<>>
  ELSE nodes[Head(chain)].products \o ListAddrs(nodes, Tail(chain))

\* A sequence without its repeated elements, first occurrences kept.
RECURSIVE Distinct(_)
Distinct(seq) ==
  IF seq = <<>> THEN <<>>
  ELSE LET front == Distinct(SubSeq(seq, 1, Len(seq) - 1))
           last == seq[Len(seq)]
       IN  IF \E i \in 1..Len(front) : front[i] = last THEN front ELSE Append(front, last)

IndexOf(seq, x) == CHOOSE i \in 1..Len(seq) : seq[i] = x

RECURSIVE RenameTree(_, _)
RenameTree(node, order) ==
  IF node = None THEN None
  ELSE [data |-> IndexOf(order, node.data),
        left |-> RenameTree(node.left, order),
        right |-> RenameTree(node.right, order)]

\* Addresses are not observable and an instance no store reaches is reclaimed:
\* the memory with the unreachable instances dropped and the reachable ones
\* renumbered in the order the stores reach them.  Sharing is kept.
Normalize(m) ==
  LET chain == Chain(m.order_nodes, m.head, Cardinality(DOMAIN m.order_nodes))
      order == Distinct(TreeAddrs(m.product_tree) \o ListAddrs(m.order_nodes, chain))
      renamed(n) ==
        [id |-> n.id,
         products |-> [k \in 1..Len(n.products) |-> IndexOf(order, n.products[k])],
         total |-> n.total,
         status |-> n.status,
         next |-> IF n.next = NULL THEN NULL ELSE IndexOf(chain, n.next)]
  IN  Mem([i \in 1..Len(order) |-> m.objects[order[i]]],
          RenameTree(m.product_tree, order),
          [i \in 1..Len(chain) |-> renamed(m.order_nodes[chain[i]])],
          IF m.head = NULL THEN NULL ELSE 1)

---------------------------------------------------------------------------
\* Persistence.

\* A file that does not exist, and a file holding a JSON document.
NoFile == [exists |-> FALSE]
File(content) == [exists |-> TRUE, content |-> content]

\* save_data, first block: json.dump(product_tree.serialize(), f).
write_products(m) == File(serialize(m.product_tree, m.objects))

\* A faulty variant of write_orders: the product list is dumped once more.
write_orders_as_products(m) == File(serialize(m.product_tree, m.objects))

\* save_data, second block: json.dump(order_list.list_all(), f).
write_orders(m) == File(list_all(m.order_nodes, m.head, m.objects))

\* save_data: the contents written to products.json and to orders.json.
save_data(m) == [product_file |-> write_products(m), order_file |-> write_orders(m)]

\* load_data, first loop: product_tree.insert(ProductModel(**p_data)) for each entry.
RECURSIVE LoadProducts(_, _)
LoadProducts(m, data) ==
  IF data = <<>> THEN m
  ELSE LET c == Construct(m.objects, Head(data))
       IN  LoadProducts(Mem(c.objects, insert(m.product_tree, c.addr, c.objects),
                            m.order_nodes, m.head),
                        Tail(data))

\* [ProductModel(**p) for p in o_data['products']]: the heap and the new instances.
RECURSIVE ConstructAll(_, _, _)
ConstructAll(objs, dicts, built) ==
  IF dicts = <<>> THEN [objects |-> objs, products |-> built]
  ELSE LET c == Construct(objs, Head(dicts))
       IN  ConstructAll(c.objects, Tail(dicts), Append(built, c.addr))

\* A faulty variant of RestoreStatus: the status of the created node is kept.
RestoreStatusSkipped(nodes, node, o_data) == nodes

\* load_data: node.status = o_data['status'].
RestoreStatus(nodes, node, o_data) == [nodes EXCEPT ![node].status = o_data.status]

\* load_data, second loop: create_order for each entry, then the status.
RECURSIVE LoadOrders(_, _)
LoadOrders(m, data) ==
  IF data = <<>> THEN m
  ELSE LET o_data == Head(data)
           built == ConstructAll(m.objects, o_data.products, <<>>)
           r == create_order(m.order_nodes, m.head, o_data.id, built.products,
                             built.objects)
       IN  LoadOrders(Mem(built.objects, m.product_tree,
                          RestoreStatus(r.order_nodes, r.node, o_data), r.head),
                      Tail(data))

\* load_data into the stores m; a file that does not exist is skipped.
load_data(m, pfile, ofile) ==
  LET m1 == IF pfile.exists THEN LoadProducts(m, pfile.content) ELSE m
      m2 == IF ofile.exists THEN LoadOrders(m1, ofile.content) ELSE m1
  IN  Normalize(m2)

---------------------------------------------------------------------------
\* Request handlers: the part of each handler that precedes save_data().
\* The result is the status code and the memory the handler leaves.

\* raise HTTPException(status_code=code, ...): the memory is as it was.
Raise(code, m) == [status_code |-> code, mem |-> m]
\* The handler reaches save_data() with the memory m.
Proceed(m) == [status_code |-> 200, mem |-> Normalize(m)]

\* A faulty variant of create_product: the id is not searched first, so that
\* an id that is present reaches the equal-key branch of insert.
create_product_upserts(m, product) ==
  LET c == Construct(m.objects, product)
  IN  Proceed(Mem(c.objects, insert(m.product_tree, c.addr, c.objects),
                  m.order_nodes, m.head))

\* create_product, up to save_data(); product is the request body.
create_product(m, product) ==
  IF search(m.product_tree, product.id, m.objects) # None THEN Raise(400, m)
  ELSE LET c == Construct(m.objects, product)
       IN  Proceed(Mem(c.objects, insert(m.product_tree, c.addr, c.objects),
                       m.order_nodes, m.head))

\* The tree with the data of the node that search finds for product_id rebound.
RECURSIVE SetNodeData(_, _, _, _)
SetNodeData(node, product_id, data, objs) ==
  IF node = None THEN None
  ELSE IF objs[node.data].id = product_id THEN [node EXCEPT !.data = data]
  ELSE IF product_id < objs[node.data].id
    THEN [node EXCEPT !.left = SetNodeData(node.left, product_id, data, objs)]
    ELSE [node EXCEPT !.right = SetNodeData(node.right, product_id, data, objs)]

\* A faulty variant of AssignNodeData: the instance the node holds is written
\* in place instead of being replaced.
AssignNodeDataInPlace(m, product_id, updated_info) ==
  LET node == search(m.product_tree, product_id, m.objects)
  IN  Mem([m.objects EXCEPT ![node.data] =
             ProductModel(updated_info.id, updated_info.name, updated_info.price,
                          updated_info.description)],
          m.product_tree, m.order_nodes, m.head)

\* update_product: node.data = updated_info, updated_info the instance built
\* from the request body.
AssignNodeData(m, product_id, updated_info) ==
  LET c == Construct(m.objects, updated_info)
  IN  Mem(c.objects, SetNodeData(m.product_tree, product_id, c.addr, c.objects),
          m.order_nodes, m.head)

\* A faulty variant of update_product: the id of the body is not compared with
\* the id of the path.
update_product_id_unchecked(m, product_id, updated_info) ==
  IF search(m.product_tree, product_id, m.objects) = None THEN Raise(404, m)
  ELSE Proceed(AssignNodeData(m, product_id, updated_info))

\* update_product, up to save_data().
update_product(m, product_id, updated_info) ==
  IF search(m.product_tree, product_id, m.objects) = None THEN Raise(404, m)
  ELSE IF updated_info.id # product_id THEN Raise(400, m)
  ELSE Proceed(AssignNodeData(m, product_id, updated_info))

\* The loop over product ids of create_order and update_order: the data of the
\* nodes found, and whether every id was found.
RECURSIVE Resolve(_, _, _)
Resolve(m, product_ids, products_found) ==
  IF product_ids = <<>> THEN [found |-> TRUE, products |-> products_found]
  ELSE LET node == search(m.product_tree, Head(product_ids), m.objects)
       IN  IF node = None THEN [found |-> FALSE, products |-> products_found]
           ELSE Resolve(m, Tail(product_ids), Append(products_found, node.data))

\* A faulty variant of handle_create_order: the order id is not looked up first.
handle_create_order_unchecked(m, order) ==
  LET res == Resolve(m, order.product_ids, <<>>)
  IN  IF ~res.found THEN Raise(404, m)
      ELSE LET r == create_order(m.order_nodes, m.head, order.id, res.products,
                                 m.objects)
           IN  Proceed(Mem(m.objects, m.product_tree, r.order_nodes, r.head))

\* A faulty variant of handle_create_order: the order is created from the
\* products found before the first id that is missing.
handle_create_order_partial(m, order) ==
  IF find_order(m.order_nodes, m.head, order.id) # NULL THEN Raise(400, m)
  ELSE LET res == Resolve(m, order.product_ids, <<>>)
           r == create_order(m.order_nodes, m.head, order.id, res.products, m.objects)
       IN  IF ~res.found /\ res.products = <<>> THEN Raise(404, m)
           ELSE Proceed(Mem(m.objects, m.product_tree, r.order_nodes, r.head))

\* create_order (the handler), up to save_data(); order is the request body.
handle_create_order(m, order) ==
  IF find_order(m.order_nodes, m.head, order.id) # NULL THEN Raise(400, m)
  ELSE LET res == Resolve(m, order.product_ids, <<>>)
       IN  IF ~res.found THEN Raise(404, m)
           ELSE LET r == create_order(m.order_nodes, m.head, order.id, res.products,
                                      m.objects)
                IN  Proceed(Mem(m.objects, m.product_tree, r.order_nodes, r.head))

\* A faulty variant of handle_update_order: the status is applied to the order
\* before the product ids are looked up.
handle_update_order_status_first(m, order_id, update) ==
  LET r0 == update_order(m.order_nodes, m.head, order_id, update.status,
                         NotGiven, m.objects)
      m0 == Mem(m.objects, m.product_tree, r0.order_nodes, m.head)
      res == IF TruthyList(update.product_ids)
               THEN Resolve(m, update.product_ids[1], <<>>)
               ELSE [found |-> TRUE, products |-> <<>>]
      products_found == IF TruthyList(update.product_ids)
                          THEN Given(res.products) ELSE NotGiven
  IN  IF r0.node = NULL THEN Raise(404, m)
      ELSE IF ~res.found THEN Raise(404, m0)
      ELSE LET r == update_order(m0.order_nodes, m0.head, order_id, NotGiven,
                                 products_found, m0.objects)
           IN  Proceed(Mem(m.objects, m.product_tree, r.order_nodes, m.head))

\* A faulty variant of handle_update_order: the updated node is unlinked and
\* linked again at the tail.
handle_update_order_requeues(m, order_id, update) ==
  LET res == IF TruthyList(update.product_ids)
               THEN Resolve(m, update.product_ids[1], <<>>)
               ELSE [found |-> TRUE, products |-> <<>>]
      products_found == IF TruthyList(update.product_ids)
                          THEN Given(res.products) ELSE NotGiven
  IN  IF ~res.found THEN Raise(404, m)
      ELSE LET r == update_order(m.order_nodes, m.head, order_id, update.status,
                                 products_found, m.objects)
           IN  IF r.node = NULL THEN Raise(404, m)
               ELSE LET d == delete_order(r.order_nodes, m.head, order_id)
                        nodes1 == [d.order_nodes EXCEPT ![r.node].next = NULL]
                    IN  IF d.head = NULL
                          THEN Proceed(Mem(m.objects, m.product_tree, nodes1, r.node))
                          ELSE Proceed(Mem(m.objects, m.product_tree,
                                           [nodes1 EXCEPT ![LastNode(nodes1, d.head)].next = r.node],
                                           d.head))

\* update_order (the handler), up to save_data(); update is the request body.
handle_update_order(m, order_id, update) ==
  LET res == IF TruthyList(update.product_ids)
               THEN Resolve(m, update.product_ids[1], <<>>)
               ELSE [found |-> TRUE, products |-> <<>>]
      products_found == IF TruthyList(update.product_ids)
                          THEN Given(res.products) ELSE NotGiven
  IN  IF ~res.found THEN Raise(404, m)
      ELSE LET r == update_order(m.order_nodes, m.head, order_id, update.status,
                                 products_found, m.objects)
           IN  IF r.node = NULL THEN Raise(404, m)
               ELSE Proceed(Mem(m.objects, m.product_tree, r.order_nodes, m.head))

\* delete_order (the handler), up to save_data().
handle_delete_order(m, order_id) ==
  LET r == delete_order(m.order_nodes, m.head, order_id)
  IN  IF ~r.found THEN Raise(404, m)
      ELSE Proceed(Mem(m.objects, m.product_tree, r.order_nodes, r.head))

---------------------------------------------------------------------------
\* The service under serialized requests: each request runs to completion.

Current == Mem(objects, product_tree, order_nodes, head)

SetMemory(m) ==
  /\ objects' = m.objects
  /\ product_tree' = m.product_tree
  /\ order_nodes' = m.order_nodes
  /\ head' = m.head

SetFiles(f) ==
  /\ product_file' = f.product_file
  /\ order_file' = f.order_file

\* The request bodies of the order handlers.
ProductIdLists == SeqUpTo(ProductIds, MaxItems)
OrderInput(id, product_ids) == [id |-> id, product_ids |-> product_ids]
OrderInputs == {OrderInput(i, l) : i \in OrderIds, l \in ProductIdLists}
OrderUpdate(status, product_ids) == [status |-> status, product_ids |-> product_ids]
StatusArgs == {NotGiven, Given(""), Given("shipped")}
ProductIdArgs == {NotGiven} \cup {Given(l) : l \in ProductIdLists}
OrderUpdates == {OrderUpdate(s, l) : s \in StatusArgs, l \in ProductIdArgs}

\* The threads of the pool that runs the handlers, and a thread with no request.
Threads == 1..MaxThreads
IdleRequest == [pc |-> "idle"]

\* The module is imported and the startup event has run with no file present.
Init ==
  /\ objects = EmptyMem.objects
  /\ product_tree = EmptyMem.product_tree
  /\ order_nodes = EmptyMem.order_nodes
  /\ head = EmptyMem.head
  /\ product_file = NoFile
  /\ order_file = NoFile
  /\ pc = "idle"
  /\ requests = [t \in Threads |-> IdleRequest]
  /\ overlapped = FALSE

\* The number of product instances the orders of m hold.
SnapshotCount(m) ==
  Len(ListAddrs(m.order_nodes, Chain(m.order_nodes, m.head, Cardinality(DOMAIN m.order_nodes))))

\* A handler as a whole: r is what it did up to save_data(); when it did not
\* raise, save_data() writes both files and the handler returns.  The result is
\* the status code, the memory and the files the request leaves.
Run(r) ==
  [status_code |-> r.status_code,
   mem |-> r.mem,
   files |-> IF r.status_code = 200
               THEN save_data(r.mem)
               ELSE [product_file |-> product_file, order_file |-> order_file]]

Serve(r) ==
  /\ SnapshotCount(r.mem) <= MaxSnapshots
  /\ SetMemory(Run(r).mem)
  /\ SetFiles(Run(r).files)
  /\ UNCHANGED pc
  /\ UNCHANGED race

CreateProduct ==
  /\ pc = "idle"
  /\ \E product \in ProductBodies(ProductIds) :
       Serve(create_product(Current, product))

UpdateProduct ==
  /\ pc = "idle"
  /\ \E product_id \in ProductIds, updated_info \in ProductBodies(ProductIds) :
       Serve(update_product(Current, product_id, updated_info))

CreateOrder ==
  /\ pc = "idle"
  /\ \E order \in OrderInputs : Serve(handle_create_order(Current, order))

UpdateOrder ==
  /\ pc = "idle"
  /\ \E order_id \in OrderIds, update \in OrderUpdates :
       Serve(handle_update_order(Current, order_id, update))

DeleteOrder ==
  /\ pc = "idle"
  /\ \E order_id \in OrderIds : Serve(handle_delete_order(Current, order_id))

\* The process is restarted: the stores are built empty and startup_event loads.
Restart ==
  /\ pc = "idle"
  /\ SetMemory(load_data(EmptyMem, product_file, order_file))
  /\ UNCHANGED <<files, pc>>
  /\ UNCHANGED race

Next ==
  \/ CreateProduct
  \/ UpdateProduct
  \/ CreateOrder
  \/ UpdateOrder
  \/ DeleteOrder
  \/ Restart

Spec == Init /\ [][Next]_vars

---------------------------------------------------------------------------
\* The service under serialized requests, one step per statement group of a
\* handler: the body up to save_data(), the two writes of save_data(), return.

\* The body of a handler has run: when it raised, the request is over and
\* nothing has changed; else the handler stands before save_data().
Begin(r) ==
  /\ SnapshotCount(r.mem) <= MaxSnapshots
  /\ IF r.status_code = 200
       THEN SetMemory(r.mem) /\ pc' = "save_products"
       ELSE UNCHANGED <<memory, pc>>
  /\ UNCHANGED files
  /\ UNCHANGED race

BeginCreateProduct ==
  /\ pc = "idle"
  /\ \E product \in ProductBodies(ProductIds) :
       Begin(create_product(Current, product))

BeginUpdateProduct ==
  /\ pc = "idle"
  /\ \E product_id \in ProductIds, updated_info \in ProductBodies(ProductIds) :
       Begin(update_product(Current, product_id, updated_info))

BeginCreateOrder ==
  /\ pc = "idle"
  /\ \E order \in OrderInputs : Begin(handle_create_order(Current, order))

BeginUpdateOrder ==
  /\ pc = "idle"
  /\ \E order_id \in OrderIds, update \in OrderUpdates :
       Begin(handle_update_order(Current, order_id, update))

BeginDeleteOrder ==
  /\ pc = "idle"
  /\ \E order_id \in OrderIds : Begin(handle_delete_order(Current, order_id))

\* save_data, first block.
SaveProducts ==
  /\ pc = "save_products"
  /\ product_file' = write_products(Current)
  /\ pc' = "save_orders"
  /\ UNCHANGED <<memory, order_file>>
  /\ UNCHANGED race

\* save_data, second block; save_data() returns to the handler.
SaveOrders ==
  /\ pc = "save_orders"
  /\ order_file' = write_orders(Current)
  /\ pc' = "return"
  /\ UNCHANGED <<memory, product_file>>
  /\ UNCHANGED race

\* The handler returns its result: the request has succeeded.
Return ==
  /\ pc = "return"
  /\ pc' = "idle"
  /\ UNCHANGED <<memory, files>>
  /\ UNCHANGED race

NextSteps ==
  \/ BeginCreateProduct
  \/ BeginUpdateProduct
  \/ BeginCreateOrder
  \/ BeginUpdateOrder
  \/ BeginDeleteOrder
  \/ SaveProducts
  \/ SaveOrders
  \/ Return
  \/ Restart

SpecSteps == Init /\ [][NextSteps]_vars

---------------------------------------------------------------------------
\* The order handlers over three order ids and short product lists.

\* order ids of this specification are 1..MaxListOid
MaxListOid == 3
ListOrderIds == 1..MaxListOid
\* the one product id of this specification
ListProductIds == {1}
ShortLists == SeqUpTo(ListProductIds, 1)

ListCreateProduct ==
  /\ pc = "idle"
  /\ \E product \in ProductBodies(ListProductIds) :
       Serve(create_product(Current, product))

ListCreateOrder ==
  /\ pc = "idle"
  /\ \E id \in ListOrderIds, l \in ShortLists :
       Serve(handle_create_order(Current, OrderInput(id, l)))

ListUpdateOrder ==
  /\ pc = "idle"
  /\ \E order_id \in ListOrderIds, status \in StatusArgs,
        l \in {NotGiven} \cup {Given(x) : x \in ShortLists} :
       Serve(handle_update_order(Current, order_id, OrderUpdate(status, l)))

ListDeleteOrder ==
  /\ pc = "idle"
  /\ \E order_id \in ListOrderIds : Serve(handle_delete_order(Current, order_id))

NextOrders ==
  \/ ListCreateProduct
  \/ ListCreateOrder
  \/ ListUpdateOrder
  \/ ListDeleteOrder

SpecOrders == Init /\ [][NextOrders]_vars

---------------------------------------------------------------------------
\* The product tree alone: any sequence of ProductBST.insert calls.

Keys == 1..MaxKey

\* product_tree.insert(ProductModel(**data)) on the memory m.
tree_insert(m, data) ==
  LET c == Construct(m.objects, data)
  IN  Normalize(Mem(c.objects, insert(m.product_tree, c.addr, c.objects),
                    m.order_nodes, m.head))

BSTInsert ==
  /\ \E data \in ProductBodies(Keys) : SetMemory(tree_insert(Current, data))
  /\ UNCHANGED <<files, pc>>
  /\ UNCHANGED race

\* node.data = updated_info of update_product, for a node that holds the id of
\* updated_info.
tree_assign(m, updated_info) ==
  Normalize(AssignNodeData(m, updated_info.id, updated_info))

BSTUpdate ==
  /\ \E updated_info \in ProductBodies(Keys) :
       /\ search(product_tree, updated_info.id, objects) # None
       /\ SetMemory(tree_assign(Current, updated_info))
  /\ UNCHANGED <<files, pc>>
  /\ UNCHANGED race

NextBST ==
  \/ BSTInsert
  \/ BSTUpdate

SpecBST == Init /\ [][NextBST]_vars

\* The ids of a sequence of dicts, and the entries of a sequence with a given id.
IdsOf(dicts) == {dicts[i].id : i \in 1..Len(dicts)}
EntriesOf(dicts, id) == {i \in 1..Len(dicts) : dicts[i].id = id}
StrictlyAscending(dicts) ==
  \A i \in 1..Len(dicts) : \A j \in 1..Len(dicts) : i < j => dicts[i].id < dicts[j].id

\* C1: serialize() is strictly ascending by id; one more insert keeps it so,
\* makes the ids those before plus the inserted id with one entry each, gives
\* the inserted id the inserted data, keeps the entry of every other id, and
\* keeps the number of entries when the id was present.  From the empty tree
\* this gives: one entry per distinct inserted id, the last insert winning.
C1_SerializeSortedUpsert ==
  LET before == serialize(product_tree, objects)
  IN  /\ StrictlyAscending(before)
      /\ \A data \in ProductBodies(Keys) :
           LET m == tree_insert(Current, data)
               after == serialize(m.product_tree, m.objects)
           IN  /\ StrictlyAscending(after)
               /\ IdsOf(after) = IdsOf(before) \cup {data.id}
               /\ \A i \in EntriesOf(after, data.id) : after[i] = data
               /\ \A id \in IdsOf(before) \ {data.id} :
                    {after[i] : i \in EntriesOf(after, id)}
                      = {before[i] : i \in EntriesOf(before, id)}
               /\ data.id \in IdsOf(before) => Len(after) = Len(before)
               /\ data.id \notin IdsOf(before) => Len(after) = Len(before) + 1

\* C1 witness: a tree of three products with a left and a right subtree, one
\* of them at the higher price, for which an insert of a present id with other
\* data is at hand.
C1_Witness ==
  /\ product_tree # None
  /\ product_tree.left # None
  /\ product_tree.right # None
  /\ Len(serialize(product_tree, objects)) >= 3
  /\ \E a \in DOMAIN objects : objects[a].price = MaxPrice
  /\ \E a \in DOMAIN objects : objects[a].price = 1

---------------------------------------------------------------------------
\* What the stores show: serialize() and list_all().

ProductsView(m) == serialize(m.product_tree, m.objects)
OrdersView(m) == list_all(m.order_nodes, m.head, m.objects)
CurrentFiles == [product_file |-> product_file, order_file |-> order_file]

\* The sum of the prices of a sequence of product dicts.
RECURSIVE PriceSum(_)
PriceSum(dicts) ==
  IF dicts = <<>> THEN 0 ELSE PriceSum(SubSeq(dicts, 1, Len(dicts) - 1)) + dicts[Len(dicts)].price

\* The price the product index holds for id, 0 when id is absent.
IndexPrice(id) ==
  LET node == search(product_tree, id, objects)
  IN  IF node = None THEN 0 ELSE objects[node.data].price

\* C2: every order of the list has total equal to the sum of the prices of
\* its own product snapshots.
C2_TotalIsSnapshotSum ==
  \A i \in 1..Len(OrdersView(Current)) :
    OrdersView(Current)[i].total = PriceSum(OrdersView(Current)[i].products)

\* C2 witness: an order of two snapshots, one of a product whose price in the
\* index has been changed since.
C2_Witness ==
  \E i \in 1..Len(OrdersView(Current)) :
    LET o == OrdersView(Current)[i]
    IN  /\ Len(o.products) = 2
        /\ \E k \in 1..2 : IndexPrice(o.products[k].id) \notin {0, o.products[k].price}

\* C3: no two records of the order list have the same id, and a create-order
\* request whose id is in the list fails with 400 and leaves memory and files
\* as they are.
C3_DuplicateOrderRejected ==
  /\ \A i, j \in 1..Len(OrdersView(Current)) :
       OrdersView(Current)[i].id = OrdersView(Current)[j].id => i = j
  /\ \A order \in OrderInputs :
       find_order(order_nodes, head, order.id) # NULL =>
         LET o == Run(handle_create_order(Current, order))
         IN  /\ o.status_code = 400
             /\ o.mem = Current
             /\ o.files = CurrentFiles

\* C3 witness: the list holds two orders, the later one with the smaller id
\* (as after a delete and a create of that id again), one of them shipped and
\* holding a product.
C3_Witness ==
  /\ Len(OrdersView(Current)) = 2
  /\ OrdersView(Current)[1].id > OrdersView(Current)[2].id
  /\ OrdersView(Current)[1].status = "shipped"
  /\ Len(OrdersView(Current)[1].products) > 0

\* Some id of the list is absent from the product index.
SomeIdMissing(product_ids) ==
  \E k \in 1..Len(product_ids) : search(product_tree, product_ids[k], objects) = None

\* C4, as claimed: a create-order request that names a product id absent from
\* the index fails with 404 and changes neither memory nor files.
C4_MissingProductIsNotFound ==
  \A order \in OrderInputs :
    SomeIdMissing(order.product_ids) =>
      LET o == Run(handle_create_order(Current, order))
      IN  /\ o.status_code = 404
          /\ o.mem = Current
          /\ o.files = CurrentFiles

\* C4, amended: such a request fails and changes neither memory nor files; it
\* fails with 400 when its order id is in the list, and with 404 otherwise.
C4_MissingProductNoMutation ==
  \A order \in OrderInputs :
    SomeIdMissing(order.product_ids) =>
      LET o == Run(handle_create_order(Current, order))
      IN  /\ o.status_code =
               (IF find_order(order_nodes, head, order.id) # NULL THEN 400 ELSE 404)
          /\ o.mem = Current
          /\ o.files = CurrentFiles

\* C4 witness: an order and a product exist, and a request with a fresh order
\* id can name the present product first and an absent one second.
C4_Witness ==
  /\ head # NULL
  /\ \E order \in OrderInputs :
       /\ find_order(order_nodes, head, order.id) = NULL
       /\ Len(order.product_ids) = 2
       /\ search(product_tree, order.product_ids[1], objects) # None
       /\ search(product_tree, order.product_ids[2], objects) = None

\* C5: save_data() followed by load_data() into empty stores gives stores that
\* show the same products and the same orders.
C5_SaveLoadRoundTrip ==
  LET f == save_data(Current)
      m == load_data(EmptyMem, f.product_file, f.order_file)
  IN  /\ ProductsView(m) = ProductsView(Current)
      /\ OrdersView(m) = OrdersView(Current)

\* C5 witness: the tree's root has a left child (the file order is not the
\* insertion order), and a shipped order holds a snapshot that differs from
\* the product the index holds now.
C5_Witness ==
  /\ product_tree # None
  /\ product_tree.left # None
  /\ \E i \in 1..Len(OrdersView(Current)) :
       LET o == OrdersView(Current)[i]
       IN  /\ o.status = "shipped"
           /\ \E k \in 1..Len(o.products) :
                IndexPrice(o.products[k].id) \notin {0, o.products[k].price}

\* The position in list_all() of the order with the given id.
PositionOf(order_id) ==
  CHOOSE i \in 1..Len(OrdersView(Current)) : OrdersView(Current)[i].id = order_id

\* The dicts of the products the index holds for the ids of a list.
IndexDicts(product_ids) ==
  [k \in 1..Len(product_ids) |->
     dict(objects, search(product_tree, product_ids[k], objects).data)]

\* An order snapshot whose price is not the one the index holds for its id now.
SomeSnapshotOutdated ==
  \E i \in 1..Len(OrdersView(Current)) :
    \E k \in 1..Len(OrdersView(Current)[i].products) :
      LET p == OrdersView(Current)[i].products[k]
      IN  IndexPrice(p.id) \notin {0, p.price}

\* C7: a create-product or update-product request, and an insert into the
\* tree of a product whose id is present, leave list_all() as it is: the same
\* orders in the same order with the same snapshots, totals and statuses.
C7_OrdersKeepSnapshots ==
  /\ \A product \in ProductBodies(ProductIds) :
       /\ OrdersView(Run(create_product(Current, product)).mem) = OrdersView(Current)
       /\ OrdersView(tree_insert(Current, product)) = OrdersView(Current)
  /\ \A product_id \in ProductIds, updated_info \in ProductBodies(ProductIds) :
       OrdersView(Run(update_product(Current, product_id, updated_info)).mem)
         = OrdersView(Current)

\* C7 witness: one order holds the very instance the tree holds, and one holds
\* a snapshot of a product that was updated after the order took it.
C7_Witness ==
  /\ \E a \in DOMAIN order_nodes : \E k \in 1..Len(order_nodes[a].products) :
       \E t \in 1..Len(TreeAddrs(product_tree)) :
         order_nodes[a].products[k] = TreeAddrs(product_tree)[t]
  /\ SomeSnapshotOutdated

\* C8: for an order of the list, an update-order request with a non-empty
\* status and no product ids returns 200 and changes only that order's status;
\* one with no status and a non-empty list of ids the index holds returns 200
\* and changes only that order's products, to the dicts of the products found
\* in the order given, and its total, to the sum of their prices.  The other
\* orders and every order's position are as before.
C8_UpdateOrderFrame ==
  \A order_id \in OrderIds :
    find_order(order_nodes, head, order_id) # NULL =>
      /\ \A status \in {"pending", "shipped", "delivered"} :
           LET o == Run(handle_update_order(Current, order_id,
                                            OrderUpdate(Given(status), NotGiven)))
           IN  /\ o.status_code = 200
               /\ OrdersView(o.mem)
                    = [OrdersView(Current) EXCEPT ![PositionOf(order_id)].status = status]
      /\ \A product_ids \in ProductIdLists \ {<<>>} :
           ~SomeIdMissing(product_ids) =>
             LET o == Run(handle_update_order(Current, order_id,
                                              OrderUpdate(NotGiven, Given(product_ids))))
             IN  /\ o.status_code = 200
                 /\ OrdersView(o.mem)
                      = [OrdersView(Current) EXCEPT
                           ![PositionOf(order_id)].products = IndexDicts(product_ids),
                           ![PositionOf(order_id)].total =
                              PriceSum(IndexDicts(product_ids))]

\* C8 witness: two orders, the first shipped and holding two products whose
\* prices differ, the second pending.
C8_Witness ==
  /\ Len(OrdersView(Current)) = 2
  /\ OrdersView(Current)[1].status = "shipped"
  /\ Len(OrdersView(Current)[1].products) = 2
  /\ OrdersView(Current)[1].products[1].price # OrdersView(Current)[1].products[2].price
  /\ OrdersView(Current)[2].status = "pending"

\* A file holds what the store shows; a file that does not exist stands for an
\* empty store.
FileShows(file, view) == IF file.exists THEN file.content = view ELSE view = <<>>

\* C6: when a handler returns its result, save_data() has written both files
\* and they hold serialize() and list_all() of the memory; and whenever no
\* request is in progress each file shows its store.
C6_SavedBeforeSuccess ==
  /\ pc = "return" =>
       /\ product_file = File(ProductsView(Current))
       /\ order_file = File(OrdersView(Current))
  /\ pc = "idle" =>
       /\ FileShows(product_file, ProductsView(Current))
       /\ FileShows(order_file, OrdersView(Current))

\* C6 witness: a handler is about to return, with products and orders in the
\* stores, one order holding a snapshot of a product updated since.
C6_Witness ==
  /\ pc = "return"
  /\ product_tree # None
  /\ head # NULL
  /\ SomeSnapshotOutdated

\* A sequence without its i-th element.
RemoveAt(seq, i) == SubSeq(seq, 1, i - 1) \o SubSeq(seq, i + 1, Len(seq))

\* C9: delete_order(id) reports true exactly when the list holds id; then
\* find_order(id) finds nothing, list_all() is the former one without the
\* record of id, and the chain from head ends without repeating a node; when it
\* reports false the list is as it was.  The handler answers 200 or 404
\* accordingly.
C9_DeleteRelinks ==
  \A order_id \in ListOrderIds :
    LET before == OrdersView(Current)
        present == \E i \in 1..Len(before) : before[i].id = order_id
        r == delete_order(order_nodes, head, order_id)
        o == Run(handle_delete_order(Current, order_id))
    IN  /\ r.found = present
        /\ o.status_code = (IF present THEN 200 ELSE 404)
        /\ present =>
             /\ find_order(r.order_nodes, r.head, order_id) = NULL
             /\ list_all(r.order_nodes, r.head, objects)
                  = RemoveAt(before, PositionOf(order_id))
             /\ Len(list_all(r.order_nodes, r.head, objects)) = Len(before) - 1
             /\ ChainEnds(r.order_nodes, r.head)
             /\ OrdersView(o.mem) = RemoveAt(before, PositionOf(order_id))
        /\ ~present =>
             /\ r.order_nodes = order_nodes
             /\ r.head = head
             /\ o.mem = Current

\* C9 witness: three orders that differ in content, so that the head, the
\* middle and the tail record can each be deleted and the rest compared.
C9_Witness ==
  /\ Len(OrdersView(Current)) = 3
  /\ OrdersView(Current)[1].status = "shipped"
  /\ Len(OrdersView(Current)[2].products) = 1
  /\ OrdersView(Current)[3].status = "pending"
  /\ Len(OrdersView(Current)[3].products) = 1

\* OrderLinkedList.create_order(id, products) on the current list, products
\* being the instances the index holds for product_ids: what list_all() shows
\* afterwards.
AfterListCreate(order_id, product_ids) ==
  LET r == create_order(order_nodes, head, order_id,
                        Resolve(Current, product_ids, <<>>).products, objects)
  IN  list_all(r.order_nodes, r.head, objects)

\* C10, as claimed: OrderLinkedList.create_order leaves the list unchanged
\* when a record with the id is present, and otherwise appends a pending
\* record with the price sum as total.
C10_ListCreateRejectsDuplicate ==
  \A order_id \in ListOrderIds, product_ids \in ShortLists :
    ~SomeIdMissing(product_ids) =>
      IF find_order(order_nodes, head, order_id) # NULL
        THEN AfterListCreate(order_id, product_ids) = OrdersView(Current)
        ELSE AfterListCreate(order_id, product_ids)
               = Append(OrdersView(Current),
                        [id |-> order_id, products |-> IndexDicts(product_ids),
                         total |-> PriceSum(IndexDicts(product_ids)),
                         status |-> "pending"])

\* C10, amended: OrderLinkedList.create_order appends a pending record with
\* the price sum as total at the tail, whether or not the id is present.
C10_ListCreateAlwaysAppends ==
  \A order_id \in ListOrderIds, product_ids \in ShortLists :
    ~SomeIdMissing(product_ids) =>
      AfterListCreate(order_id, product_ids)
        = Append(OrdersView(Current),
                 [id |-> order_id, products |-> IndexDicts(product_ids),
                  total |-> PriceSum(IndexDicts(product_ids)),
                  status |-> "pending"])

\* C10 witness: a list of two orders, the first not pending, and a product in
\* the index: a create with a present id and one with an absent id both apply.
C10_Witness ==
  /\ Len(OrdersView(Current)) = 2
  /\ OrdersView(Current)[1].status # "pending"
  /\ product_tree # None

---------------------------------------------------------------------------
\* C11: an update-order request that names a product id absent from the index,
\* or an order id absent from the list, fails with 404 and leaves memory (so
\* every order's status, products and total) and both files as they are,
\* whatever status it carries.
C11_UpdateOrderAbortsWhole ==
  \A order_id \in OrderIds, update \in OrderUpdates :
    (\/ (TruthyList(update.product_ids) /\ SomeIdMissing(update.product_ids[1]))
     \/ find_order(order_nodes, head, order_id) = NULL) =>
      LET o == Run(handle_update_order(Current, order_id, update))
      IN  /\ o.status_code = 404
          /\ o.mem = Current
          /\ OrdersView(o.mem) = OrdersView(Current)
          /\ o.files = CurrentFiles

\* C11 witness: a pending order holding a product is in the list, the other
\* order id is absent, and one product id is in the index and the other not:
\* a request with a new status can name the present id first and the missing
\* one second.
C11_Witness ==
  /\ \E i \in 1..Len(OrdersView(Current)) :
       /\ OrdersView(Current)[i].status = "pending"
       /\ Len(OrdersView(Current)[i].products) > 0
  /\ \E order_id \in OrderIds : find_order(order_nodes, head, order_id) = NULL
  /\ \E p, q \in ProductIds :
       /\ search(product_tree, p, objects) # None
       /\ search(product_tree, q, objects) = None
  /\ order_file.exists

---------------------------------------------------------------------------
\* C12: update-product with path id p and body b gives 404 when p is not in
\* the index, whatever b.id is; else 400 when b.id # p; both leave memory and
\* files as they are.  Otherwise it succeeds: the index has the same ids with
\* one entry each, the entry of p is b, every other entry is as before, and
\* the products file shows the index.
C12_UpdateProductChecksThenReplaces ==
  \A p \in ProductIds, b \in ProductBodies(ProductIds) :
    LET o == Run(update_product(Current, p, b))
        before == ProductsView(Current)
        after == ProductsView(o.mem)
    IN  IF p \notin IdsOf(before)
          THEN o.status_code = 404 /\ o.mem = Current /\ o.files = CurrentFiles
        ELSE IF b.id # p
          THEN o.status_code = 400 /\ o.mem = Current /\ o.files = CurrentFiles
        ELSE /\ o.status_code = 200
             /\ IdsOf(after) = IdsOf(before)
             /\ Len(after) = Len(before)
             /\ \A i \in 1..Len(after) :
                  after[i] = (IF before[i].id = p THEN b ELSE before[i])
             /\ o.files.product_file = File(after)

\* C12 witness: the index holds both product ids, the root with the higher
\* price and the other with the lower, and the files exist: an update of one
\* can carry the id of the other, or its own id with another price.
C12_Witness ==
  /\ Len(ProductsView(Current)) = MaxPid
  /\ product_tree # None
  /\ objects[product_tree.data].price = MaxPrice
  /\ \E i \in 1..Len(ProductsView(Current)) : ProductsView(Current)[i].price = 1
  /\ product_file.exists

---------------------------------------------------------------------------
\* C14: a create-product request whose id is in the index gives 400 and leaves
\* memory (the index and the data it holds) and both files as they are.
\* Otherwise it succeeds: the index gains one entry, the body, under the new
\* id, every other entry and every order is as before, and both files are
\* written from the new memory.
C14_CreateProductConflictOrInsert ==
  \A product \in ProductBodies(ProductIds) :
    LET o == Run(create_product(Current, product))
        before == ProductsView(Current)
        after == ProductsView(o.mem)
    IN  IF search(product_tree, product.id, objects) # None
          THEN /\ o.status_code = 400
               /\ o.mem = Current
               /\ after = before
               /\ o.files = CurrentFiles
          ELSE /\ o.status_code = 200
               /\ IdsOf(after) = IdsOf(before) \cup {product.id}
               /\ Len(after) = Len(before) + 1
               /\ \A i \in EntriesOf(after, product.id) : after[i] = product
               /\ \A i \in 1..Len(before) : \E j \in 1..Len(after) : after[j] = before[i]
               /\ OrdersView(o.mem) = OrdersView(Current)
               /\ o.files.product_file = File(after)
               /\ o.files.order_file = File(OrdersView(Current))

\* C14 witness: the index holds one product, at the higher price, an order
\* holds a snapshot of it, and the other id is absent: a create can name the
\* present id with other data, or the absent id.
C14_Witness ==
  /\ Len(ProductsView(Current)) = 1
  /\ ProductsView(Current)[1].price = MaxPrice
  /\ \E id \in ProductIds : search(product_tree, id, objects) = None
  /\ \E i \in 1..Len(OrdersView(Current)) : Len(OrdersView(Current)[i].products) > 0

---------------------------------------------------------------------------
\* The status, or the product-id list, is None or empty.
EmptyStatus(arg) == arg = NotGiven \/ arg = Given("")
EmptyList(arg) == arg = NotGiven \/ arg = Given(<<>>)

\* C17: an update-order request for an order of the list whose product ids
\* resolve succeeds and writes both files from memory; when its status is
\* None or "" every order keeps its status, when its product-id list is None
\* or empty every order keeps its products and its total, and when both are
\* so the list is as it was.
C17_EmptyArgumentsIgnored ==
  \A order_id \in OrderIds, update \in OrderUpdates :
    (/\ find_order(order_nodes, head, order_id) # NULL
     /\ EmptyStatus(update.status) \/ EmptyList(update.product_ids)
     /\ EmptyList(update.product_ids) \/ ~SomeIdMissing(update.product_ids[1])) =>
      LET o == Run(handle_update_order(Current, order_id, update))
          before == OrdersView(Current)
          after == OrdersView(o.mem)
      IN  /\ o.status_code = 200
          /\ o.files = save_data(o.mem)
          /\ o.files.order_file = File(after)
          /\ Len(after) = Len(before)
          /\ EmptyStatus(update.status) =>
               \A i \in 1..Len(before) : after[i].status = before[i].status
          /\ EmptyList(update.product_ids) =>
               \A i \in 1..Len(before) :
                 /\ after[i].products = before[i].products
                 /\ after[i].total = before[i].total
          /\ EmptyStatus(update.status) /\ EmptyList(update.product_ids) => after = before

\* C17 witness: a shipped order that holds products at a total above 0 is in
\* the list: a request with status "" and an empty product-id list applies.
C17_Witness ==
  \E i \in 1..Len(OrdersView(Current)) :
    /\ OrdersView(Current)[i].status = "shipped"
    /\ Len(OrdersView(Current)[i].products) = MaxItems
    /\ OrdersView(Current)[i].total > 0

---------------------------------------------------------------------------
\* The ids of a sequence of dicts, in order.
IdSeq(dicts) == [i \in 1..Len(dicts) |-> dicts[i].id]

\* The record a create-order request with product_ids adds for order_id.
PendingRecord(order_id, product_ids) ==
  [id |-> order_id, products |-> IndexDicts(product_ids),
   total |-> PriceSum(IndexDicts(product_ids)), status |-> "pending"]

\* C13: list_all() keeps the order of creation.  A create-order request that
\* succeeds puts its record last and keeps the rest; an update-order request
\* that succeeds keeps the sequence of ids and every other record; a
\* delete-order request that succeeds removes the record of the id and keeps
\* the rest in order; and a create of the deleted id right after puts a
\* pending record of that id last, the other records being as before.
C13_CreationOrderKept ==
  LET before == OrdersView(Current)
  IN  /\ \A id \in ListOrderIds, l \in ShortLists :
           LET o == Run(handle_create_order(Current, OrderInput(id, l)))
           IN  o.status_code = 200 =>
                 OrdersView(o.mem) = Append(before, PendingRecord(id, l))
      /\ \A id \in ListOrderIds, status \in StatusArgs,
            l \in {NotGiven} \cup {Given(x) : x \in ShortLists} :
           LET o == Run(handle_update_order(Current, id, OrderUpdate(status, l)))
               after == OrdersView(o.mem)
           IN  o.status_code = 200 =>
                 /\ IdSeq(after) = IdSeq(before)
                 /\ \A i \in 1..Len(before) : before[i].id # id => after[i] = before[i]
      /\ \A id \in ListOrderIds :
           LET o == Run(handle_delete_order(Current, id))
           IN  o.status_code = 200 =>
                 /\ OrdersView(o.mem) = RemoveAt(before, PositionOf(id))
                 /\ \A l \in ShortLists :
                      LET again == handle_create_order(o.mem, OrderInput(id, l))
                      IN  ~SomeIdMissing(l) =>
                            /\ again.status_code = 200
                            /\ OrdersView(again.mem)
                                 = Append(RemoveAt(before, PositionOf(id)),
                                          PendingRecord(id, l))

\* C13 witness: three orders whose ids are not ascending, the first shipped,
\* the second holding a product and the last created empty, and the product
\* is in the index: the first or second can be updated, or deleted and
\* created again.
C13_Witness ==
  /\ Len(OrdersView(Current)) = 3
  /\ OrdersView(Current)[1].id > OrdersView(Current)[2].id
  /\ OrdersView(Current)[1].status = "shipped"
  /\ Len(OrdersView(Current)[2].products) = 1
  /\ OrdersView(Current)[3].products = <<>>
  /\ product_tree # None

---------------------------------------------------------------------------
\* The ids the nodes of a subtree hold.
RECURSIVE NodeIds(_, _)
NodeIds(node, objs) ==
  IF node = None THEN {}
  ELSE NodeIds(node.left, objs) \cup {objs[node.data].id} \cup NodeIds(node.right, objs)

\* Every node has only smaller ids in its left subtree and only greater ids in
\* its right subtree.
RECURSIVE Ordered(_, _)
Ordered(node, objs) ==
  \/ node = None
  \/ /\ \A id \in NodeIds(node.left, objs) : id < objs[node.data].id
     /\ \A id \in NodeIds(node.right, objs) : id > objs[node.data].id
     /\ Ordered(node.left, objs)
     /\ Ordered(node.right, objs)

\* The map the tree of m stands for, at id: the data search finds, or None.
Lookup(m, id) ==
  LET node == search(m.product_tree, id, m.objects)
  IN  IF node = None THEN None ELSE dict(m.objects, node.data)

\* C15: the tree is ordered (left subtree strictly smaller, right subtree
\* strictly greater, at every node); search finds a node exactly for the ids
\* the tree holds; an insert makes search return the inserted data for its id
\* and changes the result for no other id; and so does the assignment of
\* update-product for an id that is present.  From the empty tree this gives:
\* search returns the data last inserted or assigned for an id, and None for
\* an id never inserted.
C15_TreeRefinesMap ==
  /\ Ordered(product_tree, objects)
  /\ \A id \in Keys :
       (search(product_tree, id, objects) # None) <=> id \in NodeIds(product_tree, objects)
  /\ \A id \in NodeIds(product_tree, objects) :
       objects[search(product_tree, id, objects).data].id = id
  /\ \A data \in ProductBodies(Keys) :
       LET m == tree_insert(Current, data)
       IN  /\ Ordered(m.product_tree, m.objects)
           /\ Lookup(m, data.id) = data
           /\ \A id \in Keys \ {data.id} : Lookup(m, id) = Lookup(Current, id)
  /\ \A updated_info \in ProductBodies(Keys) :
       updated_info.id \in NodeIds(product_tree, objects) =>
         LET m == tree_assign(Current, updated_info)
         IN  /\ Ordered(m.product_tree, m.objects)
             /\ Lookup(m, updated_info.id) = updated_info
             /\ \A id \in Keys \ {updated_info.id} : Lookup(m, id) = Lookup(Current, id)

\* C15 witness: a tree of all the keys, two levels deep or more below the
\* root on some side, with a left and a right subtree, holding both prices.
C15_Witness ==
  /\ NodeIds(product_tree, objects) = Keys
  /\ product_tree.left # None
  /\ product_tree.right # None
  /\ \E id \in Keys : Lookup(Current, id).price = 1
  /\ \E id \in Keys : Lookup(Current, id).price = MaxPrice

---------------------------------------------------------------------------
\* Concurrent create-order requests.  The handlers are plain functions, which
\* the framework runs on the threads of a pool, and nothing in the module
\* locks: a request on one thread may run between the statements of a request
\* on another.  A create-order request takes three steps: the checks, the
\* change of the list, and save_data().

\* A faulty variant of create_order_checks: the order id is not looked up.
create_order_checks_no_lookup(m, order) ==
  LET res == Resolve(m, order.product_ids, <<>>)
  IN  IF ~res.found THEN [status_code |-> 404, products |-> <<>>]
      ELSE [status_code |-> 200, products |-> res.products]

\* create_order (the handler), up to the call of order_list.create_order: the
\* status code when it raises, else 200 and products_found.
create_order_checks(m, order) ==
  IF find_order(m.order_nodes, m.head, order.id) # NULL
    THEN [status_code |-> 400, products |-> <<>>]
  ELSE LET res == Resolve(m, order.product_ids, <<>>)
       IN  IF ~res.found THEN [status_code |-> 404, products |-> <<>>]
           ELSE [status_code |-> 200, products |-> res.products]

RaceInputs == {OrderInput(i, l) : i \in OrderIds, l \in ShortLists}

\* The orders of the list and those that requests past their checks will add.
OrdersInSight ==
  Len(list_all(order_nodes, head, objects))
    + Cardinality({t \in Threads : requests[t].pc = "checked"})

\* A create-product request, run while no other request is in progress.
RaceCreateProduct ==
  /\ \A t \in Threads : requests[t].pc = "idle"
  /\ \E product \in ProductBodies(ListProductIds) :
       LET r == create_product(Current, product)
       IN  /\ SetMemory(r.mem)
           /\ SetFiles(IF r.status_code = 200 THEN save_data(r.mem)
                       ELSE [product_file |-> product_file, order_file |-> order_file])
  /\ UNCHANGED <<pc, race>>

\* Thread t takes a create-order request and runs its checks: when one raises
\* the request is over, else t stands before order_list.create_order with
\* products_found, the instances the index holds (the index of this
\* specification holds one product at most, whose address never changes).
RaceCheck(t) ==
  /\ requests[t].pc = "idle"
  /\ OrdersInSight < MaxRaceLen
  /\ \E order \in RaceInputs :
       LET c == create_order_checks(Current, order)
       IN  IF c.status_code = 200
             THEN /\ requests' = [requests EXCEPT ![t] =
                                    [pc |-> "checked", order_id |-> order.id,
                                     products_found |-> c.products]]
                  /\ overlapped' =
                       (overlapped \/ \E u \in Threads \ {t} : requests[u].pc # "idle")
             ELSE UNCHANGED race
  /\ UNCHANGED <<memory, files, pc>>

\* Thread t runs order_list.create_order(order.id, products_found).
RaceAppend(t) ==
  /\ requests[t].pc = "checked"
  /\ LET r == create_order(order_nodes, head, requests[t].order_id,
                           requests[t].products_found, objects)
     IN  SetMemory(Normalize(Mem(objects, product_tree, r.order_nodes, r.head)))
  /\ requests' = [requests EXCEPT ![t] = [pc |-> "created"]]
  /\ UNCHANGED <<files, pc, overlapped>>

\* Thread t runs save_data() and returns.
RaceSave(t) ==
  /\ requests[t].pc = "created"
  /\ SetFiles(save_data(Current))
  /\ requests' = [requests EXCEPT ![t] = IdleRequest]
  /\ UNCHANGED <<memory, pc, overlapped>>

NextRace ==
  \/ RaceCreateProduct
  \/ \E t \in Threads : RaceCheck(t)
  \/ \E t \in Threads : RaceAppend(t)
  \/ \E t \in Threads : RaceSave(t)

SpecRace == Init /\ [][NextRace]_vars

\* Two records of the sequence have the same id.
DuplicateIds(dicts) ==
  \E i \in 1..Len(dicts) : \E j \in 1..Len(dicts) : i # j /\ dicts[i].id = dicts[j].id

\* C16: with requests interleaving at the three steps, the list or the orders
\* file holds two records with one id only after a request has begun while
\* another was in progress: as long as every request has run to completion
\* before the next began, ids are unique in both.  (That the duplicate state is
\* reached at all is the witness.)
C16_DuplicatesOnlyByOverlap ==
  /\ DuplicateIds(list_all(order_nodes, head, objects)) => overlapped
  /\ order_file.exists /\ DuplicateIds(order_file.content) => overlapped

\* C16 witness: two requests with one id have both passed the checks and both
\* added their order, and save_data() has run since: the list and the orders
\* file hold two records with that id, while no thread is past its checks.
C16_Witness ==
  /\ DuplicateIds(list_all(order_nodes, head, objects))
  /\ order_file.exists
  /\ DuplicateIds(order_file.content)
  /\ order_file.content = list_all(order_nodes, head, objects)
  /\ \A t \in Threads : requests[t].pc = "idle"

---------------------------------------------------------------------------
\* The service under serialized requests when a write of save_data() may
\* fail.  Neither save_data() nor a handler catches anything: the exception
\* leaves the handler, the request is answered as a server error, and the
\* process goes on with the memory as the handler left it.

\* A faulty variant of after_exception: the stores are rebuilt from the files.
after_exception_reloads(m, pfile, ofile) == Normalize(load_data(EmptyMem, pfile, ofile))

\* The memory after an exception has left save_data() and the handler, m being
\* the memory and pfile, ofile the files at that moment.
after_exception(m, pfile, ofile) == m

\* open(PRODUCT_FILE, 'w') raises: nothing has been written.
SaveProductsFails ==
  /\ pc = "save_products"
  /\ SetMemory(after_exception(Current, product_file, order_file))
  /\ pc' = "failed"
  /\ UNCHANGED <<files, race>>

\* open(ORDER_FILE, 'w') raises: the products file has been written.
SaveOrdersFails ==
  /\ pc = "save_orders"
  /\ SetMemory(after_exception(Current, product_file, order_file))
  /\ pc' = "failed"
  /\ UNCHANGED <<files, race>>

\* The request is answered with a server error.
ReturnError ==
  /\ pc = "failed"
  /\ pc' = "idle"
  /\ UNCHANGED <<memory, files, race>>

\* The bodies of the handlers, over one product id and short product lists.
FailCreateProduct ==
  /\ pc = "idle"
  /\ \E product \in ProductBodies(ListProductIds) :
       Begin(create_product(Current, product))

FailUpdateProduct ==
  /\ pc = "idle"
  /\ \E product_id \in ListProductIds, updated_info \in ProductBodies(ListProductIds) :
       Begin(update_product(Current, product_id, updated_info))

FailCreateOrder ==
  /\ pc = "idle"
  /\ \E id \in OrderIds, l \in ShortLists :
       Begin(handle_create_order(Current, OrderInput(id, l)))

FailUpdateOrder ==
  /\ pc = "idle"
  /\ \E order_id \in OrderIds, status \in StatusArgs,
        l \in {NotGiven} \cup {Given(x) : x \in ShortLists} :
       Begin(handle_update_order(Current, order_id, OrderUpdate(status, l)))

FailDeleteOrder ==
  /\ pc = "idle"
  /\ \E order_id \in OrderIds : Begin(handle_delete_order(Current, order_id))

NextFail ==
  \/ FailCreateProduct
  \/ FailUpdateProduct
  \/ FailCreateOrder
  \/ FailUpdateOrder
  \/ FailDeleteOrder
  \/ SaveProducts
  \/ SaveOrders
  \/ Return
  \/ SaveProductsFails
  \/ SaveOrdersFails
  \/ ReturnError

SpecFail == Init /\ [][NextFail]_vars

\* What the handlers of this specification do, up to save_data(), to the
\* current memory.
FailRequests ==
  {create_product(Current, product) : product \in ProductBodies(ListProductIds)}
    \cup {update_product(Current, 1, updated_info) :
            updated_info \in ProductBodies(ListProductIds)}
    \cup {handle_create_order(Current, OrderInput(id, l)) :
            id \in OrderIds, l \in ShortLists}
    \cup {handle_update_order(Current, id, OrderUpdate(status, Given(l))) :
            id \in OrderIds, status \in StatusArgs, l \in ShortLists}
    \cup {handle_delete_order(Current, id) : id \in OrderIds}

\* C18, as claimed: when a request has changed the memory and a write of
\* save_data() then fails, the files are not what save_data() would write
\* from the memory: neither when the first write fails (both files as they
\* were) nor when the second does (the products file written, the orders file
\* as it was).
C18_FailureAlwaysDiffers ==
  pc = "idle" =>
    \A r \in FailRequests :
      r.status_code = 200 /\ r.mem # Current =>
        /\ CurrentFiles # save_data(r.mem)
        /\ [product_file |-> write_products(r.mem), order_file |-> order_file]
             # save_data(r.mem)

\* C18, amended: a failure of either write ends the request without the
\* handler returning its result, and changes neither the memory the handler
\* left nor the files: before the first write both files are as they were,
\* before the second the products file shows the index and the orders file is
\* as it was.  So the files may then lag behind the memory, and need not.  When
\* a later handler returns its result, both files are written from the memory
\* of that moment, the change of the failed request included.
C18_FailureKeepsMemory ==
  /\ [](pc = "save_orders" => product_file = File(ProductsView(Current)))
  /\ [](pc = "return" => CurrentFiles = save_data(Current))
  /\ [][pc' = "failed" =>
          /\ pc \in {"save_products", "save_orders"}
          /\ memory' = memory
          /\ files' = files]_vars
  /\ [][pc = "failed" =>
          /\ pc' = "idle"
          /\ memory' = memory
          /\ files' = files]_vars

\* C18 witness: a write has failed in a create-order request: both files
\* exist, the products file shows the index, and the list holds one order
\* more than the orders file, with a product.
C18_Witness ==
  /\ pc = "failed"
  /\ product_file = File(ProductsView(Current))
  /\ order_file.exists
  /\ Len(OrdersView(Current)) = Len(order_file.content) + 1
  /\ SubSeq(OrdersView(Current), 1, Len(order_file.content)) = order_file.content
  /\ Len(OrdersView(Current)[Len(OrdersView(Current))].products) > 0

====
